---- MODULE Spec2Model ----
(***************************************************************************)
(* vector-search.ipynb: the notebook's globals are the state; running a    *)
(* cell is an action.                                                      *)
(*                                                                         *)
(* Spec explores the recall cell, which compares the tree-AH match         *)
(* response with the brute-force match response, on every pair of          *)
(* responses within the bounds.  A match response is a sequence (one entry *)
(* per query) of neighbor lists; a neighbor is a record with an id and a   *)
(* distance.                                                               *)
(*                                                                         *)
(* NotebookSpec runs the cells of the notebook in their order, from the    *)
(* loaded data set to the recall cell.                                     *)
(***************************************************************************)
EXTENDS Integers, Sequences, FiniteSets

\* ---------------------------------------------------------------- bounds
\* Largest number of queries in one match response.
MaxQueries == 2
\* Largest number of neighbor entries in the two responses taken together.
MaxNeighbors == 3
\* Neighbor ids are 1..MaxId (they stand for the id strings of the corpus).
MaxId == 2
\* Neighbor distances are 0..MaxDistance.
MaxDistance == 1

\* Largest number of embeddings in the train split.
MaxTrain == 11
\* Largest number of components of an embedding.
MaxDimensions == 2
\* Largest train split the indexes are created from.
MaxIndexed == 3
\* Largest number of neighbors the service returns to one cell.
MaxReturned == 2

\* Number of neighbors requested per query.
NUM_NEIGHBOURS == 10

VARIABLES
    tree_ah_response_test,      \* response of the tree-AH deployed index
    brute_force_response_test,  \* response of the brute-force deployed index
    recalled_neighbors,         \* the accumulator of the recall cell
    recall,                     \* the quotient, a reduced fraction
    error,                      \* the exception the recall cell ended with
    pc,                         \* the cell run last; around the recall cell
                                \* "matched", then "printed" or "raised"
    rerun                       \* how the responses differ from the previous run's

VARIABLES
    train,                      \* the train split: a sequence of embeddings
    test,                       \* the test split: a sequence of embeddings
    glove100,                   \* the lines of glove100.json
    glove100_incremental,       \* the lines of glove100_incremental.json
    bucket,                     \* the lines under the two Cloud Storage URIs
    tree_ah_index,              \* the tree-AH index of the service
    brute_force_index,          \* the brute-force index of the service
    my_index_endpoint,          \* the index endpoint and what is deployed on it
    response,                   \* the response of the test query
    calls                       \* the match calls made so far

notebook_vars == <<train, test, glove100, glove100_incremental, bucket,
                   tree_ah_index, brute_force_index, my_index_endpoint,
                   response, calls>>

vars == <<tree_ah_response_test, brute_force_response_test, recalled_neighbors,
          recall, error, pc, rerun, train, test, glove100, glove100_incremental,
          bucket, tree_ah_index, brute_force_index, my_index_endpoint,
          response, calls>>

\* ------------------------------------------------------------ data model
Ids == 1..MaxId
Distances == 0..MaxDistance

\* A name that no cell has assigned yet.
Unbound == -1
NoRecall == [num |-> 0, den |-> 0]

Min(a, b) == IF a <= b THEN a ELSE b

RECURSIVE GCD(_, _)
GCD(a, b) == IF b = 0 THEN a ELSE GCD(b, a % b)

\* The neighbor lists over Ids with exactly n entries, every distance 0.
ListsOfLen(n) ==
    {[j \in 1..n |-> [id |-> f[j], distance |-> 0]] : f \in [1..n -> Ids]}

ListsUpTo(n) == UNION {ListsOfLen(k) : k \in 0..Min(n, NUM_NEIGHBOURS)}

\* The responses of exactly q queries with at most n neighbor entries in all.
RECURSIVE ResponsesOf(_, _)
ResponsesOf(q, n) ==
    IF q = 0 THEN {<<>>}
    ELSE UNION {{<<l>> \o r : r \in ResponsesOf(q - 1, n - Len(l))} : l \in ListsUpTo(n)}

Responses(n) == UNION {ResponsesOf(q, n) : q \in 0..MaxQueries}

\* ------------------------------------------------- the recall cell's parts
\* Mutant: the comprehension reads neighbor.distance where it should read
\* neighbor.id.
NeighborIds_distance(neighbors) ==
    [j \in 1..Len(neighbors) |-> neighbors[j].distance]

\* [neighbor.id for neighbor in neighbors]
NeighborIds(neighbors) == [j \in 1..Len(neighbors) |-> neighbors[j].id]

\* set(ids)
SetOf(ids) == {ids[j] : j \in 1..Len(ids)}

\* Mutant: the candidate ids are not made a set, every repeated hit counts.
Matched_multiset(tree_ah_neighbor_ids, brute_force_neighbor_ids) ==
    Cardinality({j \in 1..Len(tree_ah_neighbor_ids) :
                    \E k \in 1..Len(brute_force_neighbor_ids) :
                        brute_force_neighbor_ids[k] = tree_ah_neighbor_ids[j]})

\* Mutant: the two lists are compared rank by rank.
Matched_positional(tree_ah_neighbor_ids, brute_force_neighbor_ids) ==
    Cardinality({j \in 1..Min(Len(tree_ah_neighbor_ids), Len(brute_force_neighbor_ids)) :
                    tree_ah_neighbor_ids[j] = brute_force_neighbor_ids[j]})

\* len(set(tree_ah_neighbor_ids).intersection(brute_force_neighbor_ids))
Matched(tree_ah_neighbor_ids, brute_force_neighbor_ids) ==
    Cardinality({x \in SetOf(tree_ah_neighbor_ids) :
                    \E k \in 1..Len(brute_force_neighbor_ids) :
                        brute_force_neighbor_ids[k] = x})

\* [neighbor for neighbors in response for neighbor in neighbors]
RECURSIVE Flatten(_)
Flatten(resp) ==
    IF resp = <<>> THEN <<>>
    ELSE Head(resp) \o Flatten(Tail(resp))

\* Mutant: the candidates of query n are intersected with the ground truth
\* of every query.
Contribution_any_query(tree, brute, n) ==
    Matched(NeighborIds(tree[n]), NeighborIds(Flatten(brute)))

\* Mutant: every candidate list is paired with the first ground-truth list.
Contribution_first_truth(tree, brute, n) ==
    Matched(NeighborIds(tree[n]), NeighborIds(brute[1]))

\* What the n-th iteration of the loop adds to recalled_neighbors.
Contribution(tree, brute, n) ==
    Matched(NeighborIds(tree[n]), NeighborIds(brute[n]))

\* zip(tree, brute) stops at the shorter of the two.
ZipLen(tree, brute) == Min(Len(tree), Len(brute))

\* recalled_neighbors after the first n iterations of the loop.
RECURSIVE RecalledAfter(_, _, _)
RecalledAfter(tree, brute, n) ==
    IF n = 0 THEN 0
    ELSE RecalledAfter(tree, brute, n - 1) + Contribution(tree, brute, n)

RecalledNeighbors(tree, brute) == RecalledAfter(tree, brute, ZipLen(tree, brute))

\* Mutant: the denominator is the number of ground-truth lists.
Denominator_queries(brute) == Len(brute)

\* len([neighbor for neighbors in brute_force_response_test for neighbor in neighbors])
Denominator(brute) == Len(Flatten(brute))

\* n / d on ints: ZeroDivisionError when d = 0, else the quotient (two
\* quotients are the same float exactly when their reduced fractions agree).
Divide(n, d) ==
    IF d = 0 THEN [raised |-> "ZeroDivisionError", value |-> NoRecall]
    ELSE [raised |-> "none",
          value |-> [num |-> n \div GCD(n, d), den |-> d \div GCD(n, d)]]

\* The outcome of the recall cell on two responses.
RecallCell(tree, brute) ==
    LET q == Divide(RecalledNeighbors(tree, brute), Denominator(brute))
    IN  [recalled_neighbors |-> RecalledNeighbors(tree, brute),
         raised |-> q.raised,
         value |-> q.value]

\* ------------------------------------------------- the data preparation
\* A string is the sequence of its characters.
Digit == <<"0", "1", "2", "3", "4", "5", "6", "7", "8", "9">>

\* str(n) of a natural number n.
RECURSIVE Str(_)
Str(n) ==
    IF n < 10 THEN <<Digit[n + 1]>>
    ELSE Str(n \div 10) \o <<Digit[(n % 10) + 1]>>

\* Mutant: only the last decimal digit of the index is written.
Id_last_digit(index) == Str(index % 10)

\* "id": str(index)
Id(index) == Str(index)

\* A data set split of n embeddings with d components each; the component
\* values are small naturals that differ from row to row.
Split(n, d) == [i \in 1..n |-> [k \in 1..d |-> (i + k) % 3]]

\* Mutant: even and odd are exchanged.
AllowList_swapped(index) == <<IF index % 2 = 0 THEN "odd" ELSE "even">>

\* ["even" if index % 2 == 0 else "odd"]
AllowList(index) == <<IF index % 2 = 0 THEN "even" ELSE "odd">>

\* "restricts": [{"namespace": "class", "allow_list": [...]}]
Restricts(index) == <<[namespace |-> "class", allow_list |-> AllowList(index)]>>

\* The line json.dumps writes for the embedding at the given index of
\* enumerate(train); the line is held as the object it serialises.
CorpusRecord(index, embedding) ==
    [id |-> Id(index),
     embedding |-> [k \in 1..Len(embedding) |-> Str(embedding[k])],
     restricts |-> Restricts(index)]

\* The line of the incremental file: index = 0 and a zero for every
\* component of train[index].
IncrementalRecord(index, embedding) ==
    [id |-> Id(index),
     embedding |-> [k \in 1..Len(embedding) |-> Str(0)],
     restricts |-> Restricts(index)]

\* ------------------------------------------------------------ the service
\* The two Cloud Storage directories, before anything is copied to them.
NoBucket == [initial |-> <<>>, incremental |-> <<>>]

\* An index that has not been created.
NoIndex == [created |-> FALSE, datapoints |-> {}]

\* An endpoint that has not been created.
NoEndpoint == [created |-> FALSE, deployed_indexes |-> {}]

DEPLOYED_INDEX_ID == "tree_ah_glove_deployed_unique"
DEPLOYED_BRUTE_FORCE_INDEX_ID == "glove_brute_force_deployed_unique"

\* The datapoints of an index after it has ingested the lines of a
\* directory: a line replaces the datapoint of the same id.
Ingest(datapoints, lines) ==
    {p \in datapoints : \A j \in 1..Len(lines) : lines[j].id # p.id}
        \cup {lines[j] : j \in 1..Len(lines)}

\* Namespace("class", ["even"])
Namespace(name, allow_tokens) == [name |-> name, allow_tokens |-> allow_tokens]

\* A datapoint passes a filter when, for every namespace of the filter, one
\* of its restricts of that namespace allows one of the filter's tokens.
Passes(p, filter) ==
    \A f \in 1..Len(filter) :
        \E r \in 1..Len(p.restricts) :
            /\ p.restricts[r].namespace = filter[f].name
            /\ \E a \in 1..Len(p.restricts[r].allow_list) :
                  \E t \in 1..Len(filter[f].allow_tokens) :
                      p.restricts[r].allow_list[a] = filter[f].allow_tokens[t]

\* The ids a match on the given datapoints may return under a filter.
Allowed(datapoints, filter) == {p.id : p \in {x \in datapoints : Passes(x, filter)}}

\* The neighbor lists a match may return for one query: at most
\* num_neighbors and at most n neighbors, of pairwise different datapoints
\* among the given ids.
NeighborLists(ids, num_neighbors, n) ==
    UNION {{[j \in 1..k |-> [id |-> f[j], distance |-> 0]] :
               f \in {g \in [1..k -> ids] : \A a, b \in 1..k : g[a] = g[b] => a = b}} :
           k \in 0..Min(n, num_neighbors)}

\* The responses a match may return to q queries, with at most n neighbors
\* in all.
RECURSIVE MatchResponses(_, _, _, _)
MatchResponses(ids, q, num_neighbors, n) ==
    IF q = 0 THEN {<<>>}
    ELSE UNION {{<<l>> \o r :
                    r \in MatchResponses(ids, q - 1, num_neighbors, n - Len(l))} :
                l \in NeighborLists(ids, num_neighbors, n)}

\* ----------------------------------------------------------------- Init
\* The neighbor list with the given ids, every distance 0.
NeighborsWithIds(ids) == [j \in 1..Len(ids) |-> [id |-> ids[j], distance |-> 0]]

\* The response with the given id lists, one per query.
ResponseWithIds(idLists) ==
    [i \in 1..Len(idLists) |-> NeighborsWithIds(idLists[i])]

\* The two concrete scenarios: the ids of the candidate lists and of the
\* ground-truth lists.
WorkedExamples ==
    {[candidate |-> <<<<1, 2, 3>>>>, ground_truth |-> <<<<1, 2, 4, 5>>>>],
     [candidate |-> <<<<1, 2>>, <<3, 4>>>>, ground_truth |-> <<<<1, 2>>, <<3, 5>>>>]}

\* The two match calls have returned; the recall cell has not run yet.
Init ==
    /\ \/ /\ tree_ah_response_test \in Responses(MaxNeighbors)
          /\ brute_force_response_test \in
                 Responses(MaxNeighbors - Len(Flatten(tree_ah_response_test)))
       \/ \E ex \in WorkedExamples :
             /\ tree_ah_response_test = ResponseWithIds(ex.candidate)
             /\ brute_force_response_test = ResponseWithIds(ex.ground_truth)
    /\ recalled_neighbors = Unbound
    /\ recall = NoRecall
    /\ error = "none"
    /\ pc = "matched"
    /\ rerun = "first"
    /\ train = <<>>
    /\ test = <<>>
    /\ glove100 = <<>>
    /\ glove100_incremental = <<>>
    /\ bucket = NoBucket
    /\ tree_ah_index = NoIndex
    /\ brute_force_index = NoIndex
    /\ my_index_endpoint = NoEndpoint
    /\ response = <<>>
    /\ calls = <<>>

\* -------------------------------------------------------------- actions
\* Mutant: the loop consumes the brute-force response while it iterates
\* (pop instead of zip).
ComputeRecall_consuming ==
    /\ pc = "matched"
    /\ LET out == RecallCell(tree_ah_response_test, brute_force_response_test)
       IN  /\ recalled_neighbors' = out.recalled_neighbors
           /\ error' = out.raised
           /\ IF out.raised = "none"
              THEN recall' = out.value /\ pc' = "printed"
              ELSE recall' = recall /\ pc' = "raised"
    /\ brute_force_response_test' =
           SubSeq(brute_force_response_test,
                  ZipLen(tree_ah_response_test, brute_force_response_test) + 1,
                  Len(brute_force_response_test))
    /\ UNCHANGED <<tree_ah_response_test, rerun>>
    /\ UNCHANGED notebook_vars

\* The recall cell, run to its end: to the print or to the exception.
ComputeRecall ==
    /\ pc = "matched"
    /\ LET out == RecallCell(tree_ah_response_test, brute_force_response_test)
       IN  /\ recalled_neighbors' = out.recalled_neighbors
           /\ error' = out.raised
           /\ IF out.raised = "none"
              THEN recall' = out.value /\ pc' = "printed"
              ELSE recall' = recall /\ pc' = "raised"
    /\ UNCHANGED <<tree_ah_response_test, brute_force_response_test, rerun>>
    /\ UNCHANGED notebook_vars

Swap(list, j) ==
    [k \in 1..Len(list) |->
        IF k = j THEN list[j + 1] ELSE IF k = j + 1 THEN list[j] ELSE list[k]]

TotalNeighbors ==
    Len(Flatten(tree_ah_response_test)) + Len(Flatten(brute_force_response_test))

\* The match cell run again, the service returning one neighbor list of one
\* response in another order.
MatchPermuted ==
    /\ pc # "matched"
    /\ \/ \E i \in 1..Len(tree_ah_response_test) :
            \E j \in 1..(Len(tree_ah_response_test[i]) - 1) :
                /\ tree_ah_response_test' =
                       [tree_ah_response_test EXCEPT ![i] = Swap(@, j)]
                /\ UNCHANGED brute_force_response_test
       \/ \E i \in 1..Len(brute_force_response_test) :
            \E j \in 1..(Len(brute_force_response_test[i]) - 1) :
                /\ brute_force_response_test' =
                       [brute_force_response_test EXCEPT ![i] = Swap(@, j)]
                /\ UNCHANGED tree_ah_response_test
    /\ pc' = "matched"
    /\ rerun' = "permuted"
    /\ UNCHANGED <<recalled_neighbors, recall, error>>
    /\ UNCHANGED notebook_vars

\* The match cell run again, the service returning one neighbor of one list
\* a second time.
MatchRepeated ==
    /\ pc # "matched"
    /\ TotalNeighbors < MaxNeighbors
    /\ \/ \E i \in 1..Len(tree_ah_response_test) :
            \E j \in 1..Len(tree_ah_response_test[i]) :
                /\ Len(tree_ah_response_test[i]) < NUM_NEIGHBOURS
                /\ tree_ah_response_test' =
                       [tree_ah_response_test EXCEPT ![i] = Append(@, @[j])]
                /\ UNCHANGED brute_force_response_test
                /\ rerun' = "repeated_candidate"
       \/ \E i \in 1..Len(brute_force_response_test) :
            \E j \in 1..Len(brute_force_response_test[i]) :
                /\ Len(brute_force_response_test[i]) < NUM_NEIGHBOURS
                /\ brute_force_response_test' =
                       [brute_force_response_test EXCEPT ![i] = Append(@, @[j])]
                /\ UNCHANGED tree_ah_response_test
                /\ rerun' = "repeated_truth"
    /\ pc' = "matched"
    /\ UNCHANGED <<recalled_neighbors, recall, error>>
    /\ UNCHANGED notebook_vars

\* The match cell run again on the queries in another order: two adjacent
\* queries exchanged, and with them their neighbor lists in both responses.
MatchQueriesPermuted ==
    /\ pc # "matched"
    /\ \E j \in 1..(ZipLen(tree_ah_response_test, brute_force_response_test) - 1) :
          /\ tree_ah_response_test' = Swap(tree_ah_response_test, j)
          /\ brute_force_response_test' = Swap(brute_force_response_test, j)
    /\ pc' = "matched"
    /\ rerun' = "queries_permuted"
    /\ UNCHANGED <<recalled_neighbors, recall, error>>
    /\ UNCHANGED notebook_vars

Next ==
    \/ ComputeRecall
    \/ MatchPermuted
    \/ MatchRepeated
    \/ MatchQueriesPermuted

Spec == Init /\ [][Next]_vars

\* ------------------------------------------------- the notebook's cells
recall_vars == <<tree_ah_response_test, brute_force_response_test,
                 recalled_neighbors, recall, error, rerun>>

\* The data set is loaded; no later cell has run.
NotebookInit ==
    /\ \E n \in 1..MaxTrain, q \in 1..MaxQueries, d \in 1..MaxDimensions :
          /\ train = Split(n, d)
          /\ test = Split(q, d)
    /\ glove100 = <<>>
    /\ glove100_incremental = <<>>
    /\ bucket = NoBucket
    /\ tree_ah_index = NoIndex
    /\ brute_force_index = NoIndex
    /\ my_index_endpoint = NoEndpoint
    /\ response = <<>>
    /\ calls = <<>>
    /\ tree_ah_response_test = <<>>
    /\ brute_force_response_test = <<>>
    /\ recalled_neighbors = Unbound
    /\ recall = NoRecall
    /\ error = "none"
    /\ pc = "loaded"
    /\ rerun = "first"

\* The cell that writes glove100.json: one line for every embedding of
\* enumerate(train), the index counting from 0.
WriteCorpus ==
    /\ pc = "loaded"
    /\ glove100' = [i \in 1..Len(train) |-> CorpusRecord(i - 1, train[i])]
    /\ pc' = "corpus_written"
    /\ UNCHANGED <<train, test, glove100_incremental, bucket, tree_ah_index,
                   brute_force_index, my_index_endpoint, response, calls>>
    /\ UNCHANGED recall_vars

\* gsutil cp glove100.json {EMBEDDINGS_INITIAL_URI}
UploadCorpus ==
    /\ pc = "corpus_written"
    /\ bucket' = [bucket EXCEPT !.initial = glove100]
    /\ pc' = "corpus_uploaded"
    /\ UNCHANGED <<train, test, glove100, glove100_incremental, tree_ah_index,
                   brute_force_index, my_index_endpoint, response, calls>>
    /\ UNCHANGED recall_vars

\* create_tree_ah_index(contents_delta_uri=EMBEDDINGS_INITIAL_URI, ...);
\* the indexes are built for the train splits of at most MaxIndexed
\* embeddings.
CreateTreeAhIndex ==
    /\ pc = "corpus_uploaded"
    /\ Len(train) <= MaxIndexed
    /\ tree_ah_index' = [created |-> TRUE, datapoints |-> Ingest({}, bucket.initial)]
    /\ pc' = "tree_ah_created"
    /\ UNCHANGED <<train, test, glove100, glove100_incremental, bucket,
                   brute_force_index, my_index_endpoint, response, calls>>
    /\ UNCHANGED recall_vars

\* create_brute_force_index(contents_delta_uri=EMBEDDINGS_INITIAL_URI, ...)
CreateBruteForceIndex ==
    /\ pc = "tree_ah_created"
    /\ brute_force_index' = [created |-> TRUE, datapoints |-> Ingest({}, bucket.initial)]
    /\ pc' = "brute_force_created"
    /\ UNCHANGED <<train, test, glove100, glove100_incremental, bucket,
                   tree_ah_index, my_index_endpoint, response, calls>>
    /\ UNCHANGED recall_vars

\* The cell that writes glove100_incremental.json: one line, for index = 0.
WriteIncremental ==
    /\ pc = "brute_force_created"
    /\ glove100_incremental' = <<IncrementalRecord(0, train[1])>>
    /\ pc' = "incremental_written"
    /\ UNCHANGED <<train, test, glove100, bucket, tree_ah_index,
                   brute_force_index, my_index_endpoint, response, calls>>
    /\ UNCHANGED recall_vars

\* gsutil cp glove100_incremental.json {EMBEDDINGS_UPDATE_URI}
UploadIncremental ==
    /\ pc = "incremental_written"
    /\ bucket' = [bucket EXCEPT !.incremental = glove100_incremental]
    /\ pc' = "incremental_uploaded"
    /\ UNCHANGED <<train, test, glove100, glove100_incremental, tree_ah_index,
                   brute_force_index, my_index_endpoint, response, calls>>
    /\ UNCHANGED recall_vars

\* tree_ah_index.update_embeddings(contents_delta_uri=EMBEDDINGS_UPDATE_URI)
UpdateEmbeddings ==
    /\ pc = "incremental_uploaded"
    /\ tree_ah_index' =
           [tree_ah_index EXCEPT !.datapoints = Ingest(@, bucket.incremental)]
    /\ pc' = "updated"
    /\ UNCHANGED <<train, test, glove100, glove100_incremental, bucket,
                   brute_force_index, my_index_endpoint, response, calls>>
    /\ UNCHANGED recall_vars

\* MatchingEngineIndexEndpoint.create(...)
CreateEndpoint ==
    /\ pc = "updated"
    /\ my_index_endpoint' = [created |-> TRUE, deployed_indexes |-> {}]
    /\ pc' = "endpoint_created"
    /\ UNCHANGED <<train, test, glove100, glove100_incremental, bucket,
                   tree_ah_index, brute_force_index, response, calls>>
    /\ UNCHANGED recall_vars

\* The endpoint after deploy_index(index=index, deployed_index_id=id).
DeployIndex(endpoint, index, deployed_index_id) ==
    [endpoint EXCEPT !.deployed_indexes =
         @ \cup {[id |-> deployed_index_id, index |-> index]}]

\* my_index_endpoint.deploy_index(index=tree_ah_index, deployed_index_id=DEPLOYED_INDEX_ID)
DeployTreeAh ==
    /\ pc = "endpoint_created"
    /\ my_index_endpoint' = DeployIndex(my_index_endpoint, tree_ah_index, DEPLOYED_INDEX_ID)
    /\ pc' = "tree_ah_deployed"
    /\ UNCHANGED <<train, test, glove100, glove100_incremental, bucket,
                   tree_ah_index, brute_force_index, response, calls>>
    /\ UNCHANGED recall_vars

\* my_index_endpoint.deploy_index(index=brute_force_index,
\*                                deployed_index_id=DEPLOYED_BRUTE_FORCE_INDEX_ID)
DeployBruteForce ==
    /\ pc = "tree_ah_deployed"
    /\ my_index_endpoint' =
           DeployIndex(my_index_endpoint, brute_force_index, DEPLOYED_BRUTE_FORCE_INDEX_ID)
    /\ pc' = "brute_force_deployed"
    /\ UNCHANGED <<train, test, glove100, glove100_incremental, bucket,
                   tree_ah_index, brute_force_index, response, calls>>
    /\ UNCHANGED recall_vars

\* The arguments of one my_index_endpoint.match(...) call.
Call(deployed_index_id, queries, num_neighbors, filter) ==
    [deployed_index_id |-> deployed_index_id, queries |-> queries,
     num_neighbors |-> num_neighbors, filter |-> filter]

\* Is the id deployed on the endpoint, with an index that exists?
Deployed(endpoint, deployed_index_id) ==
    /\ endpoint.created
    /\ \E d \in endpoint.deployed_indexes :
          d.id = deployed_index_id /\ d.index.created

\* What endpoint.match(...) may do with a call when the service returns at
\* most n neighbors in all: raise when the id is not deployed, else return
\* one neighbor list per query, drawn from the datapoints of the deployed
\* index that pass the filter.
Match(endpoint, call, n) ==
    IF ~Deployed(endpoint, call.deployed_index_id)
    THEN {[raised |-> "MatchError", value |-> <<>>]}
    ELSE {[raised |-> "none", value |-> r] :
             r \in UNION {MatchResponses(Allowed(d.index.datapoints, call.filter),
                                         Len(call.queries), call.num_neighbors, n) :
                          d \in {e \in endpoint.deployed_indexes :
                                    e.id = call.deployed_index_id}}}

\* test[:1]
FirstQuery(queries) == SubSeq(queries, 1, Min(1, Len(queries)))

\* The call of the test query.
TestQueryCall ==
    Call(DEPLOYED_INDEX_ID, FirstQuery(test), NUM_NEIGHBOURS,
         <<Namespace("class", <<"even">>)>>)

\* The test query cell.
TestQuery ==
    /\ pc = "brute_force_deployed"
    /\ \E out \in Match(my_index_endpoint, TestQueryCall, MaxReturned) :
          /\ response' = out.value
          /\ error' = out.raised
          /\ pc' = IF out.raised = "none" THEN "queried" ELSE "query_raised"
    /\ calls' = Append(calls, TestQueryCall)
    /\ UNCHANGED <<train, test, glove100, glove100_incremental, bucket,
                   tree_ah_index, brute_force_index, my_index_endpoint>>
    /\ UNCHANGED <<tree_ah_response_test, brute_force_response_test,
                   recalled_neighbors, recall, rerun>>

\* Mutant: the brute-force index is asked the first query only.
BruteForceQueries_first(queries) == FirstQuery(queries)

\* queries=list(test) of the brute-force call
BruteForceQueries(queries) == queries

\* The two calls of the match cell.
TreeAhCall == Call(DEPLOYED_INDEX_ID, test, NUM_NEIGHBOURS, <<>>)
BruteForceCall ==
    Call(DEPLOYED_BRUTE_FORCE_INDEX_ID, BruteForceQueries(test), NUM_NEIGHBOURS, <<>>)

\* The match cell: the tree-AH call, then the brute-force call; a call
\* that raises ends the cell.
MatchCell ==
    /\ pc = "queried"
    /\ \E t \in Match(my_index_endpoint, TreeAhCall, MaxReturned) :
          IF t.raised # "none"
          THEN /\ calls' = Append(calls, TreeAhCall)
               /\ error' = t.raised
               /\ pc' = "match_raised"
               /\ UNCHANGED <<tree_ah_response_test, brute_force_response_test>>
          ELSE \E b \in Match(my_index_endpoint, BruteForceCall,
                             MaxReturned - Len(Flatten(t.value))) :
                  /\ calls' = calls \o <<TreeAhCall, BruteForceCall>>
                  /\ tree_ah_response_test' = t.value
                  /\ error' = b.raised
                  /\ IF b.raised # "none"
                     THEN /\ pc' = "match_raised"
                          /\ UNCHANGED brute_force_response_test
                     ELSE /\ pc' = "matched"
                          /\ brute_force_response_test' = b.value
    /\ UNCHANGED <<train, test, glove100, glove100_incremental, bucket,
                   tree_ah_index, brute_force_index, my_index_endpoint, response>>
    /\ UNCHANGED <<recalled_neighbors, recall, rerun>>

NotebookNext ==
    \/ WriteCorpus
    \/ UploadCorpus
    \/ CreateTreeAhIndex
    \/ CreateBruteForceIndex
    \/ WriteIncremental
    \/ UploadIncremental
    \/ UpdateEmbeddings
    \/ CreateEndpoint
    \/ DeployTreeAh
    \/ DeployBruteForce
    \/ TestQuery
    \/ MatchCell
    \/ ComputeRecall

NotebookSpec == NotebookInit /\ [][NotebookNext]_vars

TypeOK ==
    /\ pc \in {"matched", "printed", "raised"}
    /\ error \in {"none", "ZeroDivisionError"}
    /\ rerun \in {"first", "permuted", "repeated_candidate", "repeated_truth",
                 "queries_permuted"}
    /\ recalled_neighbors \in Unbound..TotalNeighbors

\* ------------------------------------------------ the words of the claims
Ran == pc # "matched"

SameLength == Len(tree_ah_response_test) = Len(brute_force_response_test)

\* The queries both responses have a neighbor list for.
Queries == 1..Min(Len(tree_ah_response_test), Len(brute_force_response_test))

CandidateIds(i) == SetOf(NeighborIds(tree_ah_response_test[i]))
GroundTruthIds(i) == SetOf(NeighborIds(brute_force_response_test[i]))

\* Sum over queries 1..n of |candidate ids of i \cap ground-truth ids of i|.
RECURSIVE SetMatched(_)
SetMatched(n) ==
    IF n = 0 THEN 0
    ELSE SetMatched(n - 1) + Cardinality(CandidateIds(n) \cap GroundTruthIds(n))

\* Sum over ground-truth lists 1..n of the number of distinct ids of the list.
RECURSIVE SetTotal(_)
SetTotal(n) ==
    IF n = 0 THEN 0
    ELSE SetTotal(n - 1) + Cardinality(GroundTruthIds(n))

Total == SetTotal(Len(brute_force_response_test))

Fraction(n, d) == [num |-> n \div GCD(n, d), den |-> d \div GCD(n, d)]

\* What the last run of the recall cell gave: the exception, or the value.
Outcome == [raised |-> error, value |-> IF error = "none" THEN recall ELSE NoRecall]

\* A step of the recall cell.
CellStep == pc = "matched" /\ pc' # "matched"

\* ----------------------------------------------------------------- claims
\* C1: when the candidate batch and the ground-truth batch differ in length,
\* the recall computation fails with MismatchedBatchError and gives no value.
C1_MismatchedBatchError ==
    (Ran /\ ~SameLength) => (pc = "raised" /\ error = "MismatchedBatchError")

\* C2: when every ground-truth neighbor list is empty (total == 0), the
\* recall computation fails with DegenerateInputError, not with a division
\* by zero, and gives no recall value.
C2_DegenerateInputError ==
    (Ran /\ \A i \in 1..Len(brute_force_response_test) :
                brute_force_response_test[i] = <<>>)
        => (pc = "raised" /\ error = "DegenerateInputError")

\* What the cell does there: it ends with the ZeroDivisionError of its
\* division and assigns no recall.
ZeroDivisionOnEmptyGroundTruth ==
    [][(CellStep /\ \A i \in 1..Len(brute_force_response_test) :
                        brute_force_response_test[i] = <<>>)
        => (pc' = "raised" /\ error' = "ZeroDivisionError" /\ recall' = recall)]_vars

\* C3: for equal-length batches with non-zero total, the recall is
\* matched / total, matched the sum of the per-query set intersections and
\* total the sum of the per-query numbers of distinct ground-truth ids.
C3_SetRecall ==
    (Ran /\ SameLength /\ Total # 0)
        => (pc = "printed"
            /\ recall = Fraction(SetMatched(Len(brute_force_response_test)), Total))

\* C4: for equal-length batches for which recall is defined, the recall is
\* in [0, 1]: the matched count is not negative and not above the denominator.
C4_RecallInRange ==
    (pc = "printed" /\ SameLength)
        => /\ 0 <= recalled_neighbors
           /\ recalled_neighbors <= Denominator(brute_force_response_test)
           /\ 0 <= recall.num
           /\ recall.num <= recall.den
           /\ recall.den > 0

C4_Witness ==
    /\ pc = "printed"
    /\ SameLength
    /\ recalled_neighbors = Denominator(brute_force_response_test)
    /\ \E i \in Queries : Len(tree_ah_response_test[i]) > Cardinality(CandidateIds(i))

\* C5: when every query's candidate list and ground-truth list have the same
\* id set (lists may repeat an id) and total is not zero, the recall is 1.0.
C5_IdenticalSetsGiveOne ==
    (Ran /\ SameLength /\ Total # 0
         /\ \A i \in Queries : CandidateIds(i) = GroundTruthIds(i))
        => (pc = "printed" /\ recall = [num |-> 1, den |-> 1])

\* C6: a repeated copy of an id already in a candidate list or in a
\* ground-truth list leaves the recall unchanged.
C6_RepeatsLeaveRecall ==
    [][(CellStep /\ rerun \in {"repeated_candidate", "repeated_truth"})
        => Outcome' = Outcome]_vars

\* C7: permuting the neighbors inside a candidate or ground-truth list
\* leaves the recall unchanged.
C7_PermutationInvariant ==
    [][(CellStep /\ rerun = "permuted") => Outcome' = Outcome]_vars

C7_Witness ==
    /\ pc = "printed"
    /\ rerun = "permuted"
    /\ 0 < recall.num
    /\ \E i \in 1..Len(tree_ah_response_test) :
          Cardinality(SetOf(NeighborIds(tree_ah_response_test[i]))) = 2

\* C8: when every query's candidate id set is disjoint from its ground-truth
\* id set and total is not zero, the recall is 0.0, also when a candidate id
\* is in the ground truth of another query.
C8_DisjointSetsGiveZero ==
    (Ran /\ Total # 0
         /\ \A i \in Queries : CandidateIds(i) \cap GroundTruthIds(i) = {})
        => (pc = "printed" /\ recall = [num |-> 0, den |-> 1])

C8_Witness ==
    /\ pc = "printed"
    /\ recall = [num |-> 0, den |-> 1]
    /\ SameLength
    /\ \A i \in Queries : CandidateIds(i) \cap GroundTruthIds(i) = {}
    /\ \E i, k \in Queries : i # k /\ CandidateIds(i) \cap GroundTruthIds(k) # {}

\* The responses that have the ids of the given one, list by list and rank by
\* rank, under every choice of distances.
RescoredLists(list) ==
    {[j \in 1..Len(list) |-> [id |-> list[j].id, distance |-> d[j]]] :
        d \in [1..Len(list) -> Distances]}

RECURSIVE Rescored(_)
Rescored(resp) ==
    IF resp = <<>> THEN {<<>>}
    ELSE {<<l>> \o r : l \in RescoredLists(Head(resp)),
                       r \in Rescored(Tail(resp))}

\* C9: two runs on batches that agree on every neighbor id and differ only
\* in the distances give the same recall.
C9_ScoresIgnored ==
    Ran => \A t \in Rescored(tree_ah_response_test) :
             \A b \in Rescored(brute_force_response_test) :
                LET out == RecallCell(t, b)
                IN  [raised |-> out.raised, value |-> out.value] = Outcome

C9_Witness ==
    /\ pc = "printed"
    /\ rerun = "first"
    /\ recall = [num |-> 1, den |-> 2]
    /\ Cardinality(Rescored(tree_ah_response_test)) > 1
    /\ Cardinality(Rescored(brute_force_response_test)) > 1

\* C10: the recall computation, ending in a value or in an error, leaves the
\* candidate batch and the ground-truth batch as they were.
C10_InputsUnchanged ==
    [][CellStep => /\ tree_ah_response_test' = tree_ah_response_test
                   /\ brute_force_response_test' = brute_force_response_test]_vars

C10_Witness ==
    /\ Ran
    /\ rerun = "first"
    /\ Len(tree_ah_response_test) < Len(brute_force_response_test)
    /\ Len(Flatten(brute_force_response_test)) = MaxNeighbors

\* The orders in which the n iterations of the loop can be taken.
Orders(n) == {o \in [1..n -> 1..n] : \A a, b \in 1..n : o[a] = o[b] => a = b}

\* The accumulator after the contributions of queries order[1..k] were added.
RECURSIVE AccumulatedInOrder(_, _, _, _)
AccumulatedInOrder(tree, brute, order, k) ==
    IF k = 0 THEN 0
    ELSE AccumulatedInOrder(tree, brute, order, k - 1)
             + Contribution(tree, brute, order[k])

\* C11: the recall does not depend on the order of the queries: the same
\* permutation applied to the queries of both batches leaves matched, total
\* and recall unchanged, and the per-query contributions accumulated in any
\* order give the same matched.
C11_QueryOrderIndependent ==
    [][/\ (pc # "matched" /\ pc' = "matched" /\ rerun' = "queries_permuted")
            => Denominator(brute_force_response_test')
                   = Denominator(brute_force_response_test)
       /\ (CellStep /\ rerun = "queries_permuted")
            => (Outcome' = Outcome /\ recalled_neighbors' = recalled_neighbors)
       /\ CellStep
            => \A o \in Orders(ZipLen(tree_ah_response_test, brute_force_response_test)) :
                  AccumulatedInOrder(tree_ah_response_test, brute_force_response_test,
                                     o, ZipLen(tree_ah_response_test,
                                               brute_force_response_test))
                      = recalled_neighbors']_vars

C11_Witness ==
    /\ pc = "printed"
    /\ rerun = "queries_permuted"
    /\ Len(tree_ah_response_test) = 2
    /\ Len(brute_force_response_test) = 2
    /\ Contribution(tree_ah_response_test, brute_force_response_test, 1)
           # Contribution(tree_ah_response_test, brute_force_response_test, 2)

IdsOfResponse(resp) == [i \in 1..Len(resp) |-> NeighborIds(resp[i])]

\* C12: candidate ids [1,2,3] against ground-truth ids [1,2,4,5] give
\* matched 2, total 4, recall 0.5; candidates [1,2],[3,4] against ground truth
\* [1,2],[3,5] give matched 3, total 4, recall 0.75.
C12_WorkedExamples ==
    /\ (Ran /\ IdsOfResponse(tree_ah_response_test) = <<<<1, 2, 3>>>>
            /\ IdsOfResponse(brute_force_response_test) = <<<<1, 2, 4, 5>>>>)
         => /\ pc = "printed"
            /\ recalled_neighbors = 2
            /\ Denominator(brute_force_response_test) = 4
            /\ recall = [num |-> 1, den |-> 2]
    /\ (Ran /\ IdsOfResponse(tree_ah_response_test) = <<<<1, 2>>, <<3, 4>>>>
            /\ IdsOfResponse(brute_force_response_test) = <<<<1, 2>>, <<3, 5>>>>)
         => /\ pc = "printed"
            /\ recalled_neighbors = 3
            /\ Denominator(brute_force_response_test) = 4
            /\ recall = [num |-> 3, den |-> 4]

C12_Witness ==
    /\ pc = "printed"
    /\ rerun = "first"
    /\ IdsOfResponse(tree_ah_response_test) = <<<<1, 2>>, <<3, 4>>>>
    /\ IdsOfResponse(brute_force_response_test) = <<<<1, 2>>, <<3, 5>>>>
    /\ recall = [num |-> 3, den |-> 4]

\* ------------------------------------------------------ the notebook run
\* The number a string of decimal digits writes.
DigitValue(c) == CHOOSE v \in 0..9 : Digit[v + 1] = c

RECURSIVE DecimalValue(_)
DecimalValue(s) ==
    IF s = <<>> THEN 0
    ELSE DecimalValue(SubSeq(s, 1, Len(s) - 1)) * 10 + DigitValue(s[Len(s)])

\* Is s the decimal string of the number i?
IsDecimalOf(s, i) ==
    /\ Len(s) >= 1
    /\ \A j \in 1..Len(s) : \E v \in 0..9 : Digit[v + 1] = s[j]
    /\ Len(s) > 1 => s[1] # "0"
    /\ DecimalValue(s) = i

\* The neighbors of the test query's response.
ResponseNeighbors == Flatten(response)

\* Does the datapoint carry class "even"?
CarriesEven(p) ==
    \E r \in 1..Len(p.restricts) :
        /\ p.restricts[r].namespace = "class"
        /\ \E a \in 1..Len(p.restricts[r].allow_list) :
              p.restricts[r].allow_list[a] = "even"

\* C13: every neighbor the test query returns, issued with the filter of
\* namespace "class" and allow-list ["even"], is a datapoint of the queried
\* index whose record carries class "even", and its id is the decimal
\* string of an even train index.
C13_EvenFilterReturnsEvenIndices ==
    \A j \in 1..Len(ResponseNeighbors) :
        /\ \E p \in tree_ah_index.datapoints :
              p.id = ResponseNeighbors[j].id /\ CarriesEven(p)
        /\ \E i \in 0..(Len(train) - 1) :
              i % 2 = 0 /\ IsDecimalOf(ResponseNeighbors[j].id, i)

\* The test query has returned the updated datapoint "0" and the datapoint
\* "2" from an index that also holds the odd datapoint "1".
C13_Witness ==
    /\ pc = "queried"
    /\ calls[Len(calls)].filter = <<Namespace("class", <<"even">>)>>
    /\ Len(ResponseNeighbors) = 2
    /\ {ResponseNeighbors[j].id : j \in 1..2} = {<<"0">>, <<"2">>}
    /\ \E p \in tree_ah_index.datapoints : p.id = <<"1">> /\ ~CarriesEven(p)
    /\ \E p \in tree_ah_index.datapoints : p \in {glove100_incremental[1]}

\* The calls a step makes.
NewCalls == {calls'[k] : k \in (Len(calls) + 1)..Len(calls')}

\* The step that ends the match cell with both responses bound.
MatchStep == pc # "matched" /\ pc' = "matched"

\* C14: the endpoint is created after the two indexes, an index is deployed
\* on the created endpoint after its creation, and every match call names
\* an id deployed on the endpoint before the call; the two calls of the
\* match cell name the two deployed ids with the same queries, the whole
\* test split, and the same num_neighbors, and their responses hold one
\* neighbor list per query.
C14_MatchCallsDeployedAndAligned ==
    [][/\ (~my_index_endpoint.created /\ my_index_endpoint'.created)
            => (tree_ah_index.created /\ brute_force_index.created)
       /\ \A d \in my_index_endpoint'.deployed_indexes \ my_index_endpoint.deployed_indexes :
             my_index_endpoint.created /\ d.index.created
       /\ \A c \in NewCalls :
             /\ my_index_endpoint.created
             /\ \E d \in my_index_endpoint.deployed_indexes :
                   d.id = c.deployed_index_id /\ d.index.created
       /\ MatchStep =>
             /\ Len(calls') = Len(calls) + 2
             /\ calls'[Len(calls') - 1].deployed_index_id = DEPLOYED_INDEX_ID
             /\ calls'[Len(calls')].deployed_index_id = DEPLOYED_BRUTE_FORCE_INDEX_ID
             /\ calls'[Len(calls') - 1].queries = calls'[Len(calls')].queries
             /\ calls'[Len(calls')].queries = test
             /\ calls'[Len(calls') - 1].num_neighbors = calls'[Len(calls')].num_neighbors
             /\ Len(tree_ah_response_test') = Len(test)
             /\ Len(brute_force_response_test') = Len(test)]_vars

\* The match cell has asked both deployed indexes two queries; the tree-AH
\* index answered the second only and the brute-force index the first only.
C14_Witness ==
    /\ pc = "matched"
    /\ Len(test) = 2
    /\ Len(calls) = 3
    /\ Len(tree_ah_response_test) = 2
    /\ Len(brute_force_response_test) = 2
    /\ tree_ah_response_test[1] = <<>> /\ tree_ah_response_test[2] # <<>>
    /\ brute_force_response_test[1] # <<>> /\ brute_force_response_test[2] = <<>>

\* The corpus file has been written.
CorpusWritten == pc # "loaded"

\* C15: once written, glove100.json holds one record per train embedding,
\* in train order: the record of the embedding at index i (from 0) has as
\* id the decimal string of i, so that no two records share an id, an
\* embedding with one entry per component of train[i], each the decimal
\* string of that component, and exactly one restrict, of namespace
\* "class", whose allow_list is ["even"] when i is even and ["odd"]
\* otherwise.
C15_CorpusRecords ==
    CorpusWritten =>
        /\ Len(glove100) = Len(train)
        /\ \A i \in 0..(Len(train) - 1) :
              /\ IsDecimalOf(glove100[i + 1].id, i)
              /\ Len(glove100[i + 1].embedding) = Len(train[i + 1])
              /\ \A k \in 1..Len(train[i + 1]) :
                    IsDecimalOf(glove100[i + 1].embedding[k], train[i + 1][k])
              /\ Len(glove100[i + 1].restricts) = 1
              /\ glove100[i + 1].restricts[1].namespace = "class"
              /\ glove100[i + 1].restricts[1].allow_list =
                     IF i % 2 = 0 THEN <<"even">> ELSE <<"odd">>
        /\ \A i, j \in 1..Len(glove100) :
              glove100[i].id = glove100[j].id => i = j

\* The file of a train split of eleven embeddings of two components has
\* been written: its last record has the two-digit id "10".
C15_Witness ==
    /\ pc = "corpus_written"
    /\ Len(train) = 11
    /\ Len(train[11]) = 2
    /\ Len(glove100) = 11
    /\ glove100[11].id = <<"1", "0">>
    /\ glove100[2].restricts[1].allow_list = <<"odd">>
====
